---- MODULE Spec2Model ----
(***************************************************************************)
(* Cart-to-order transition of the storefront backend (backend/main.py):   *)
(* the handlers get_cart, add_to_cart and create_order, each split at its  *)
(* calls to the document store, run by a pool of request workers against   *)
(* the shared "cart" and "order" collections.                              *)
(***************************************************************************)
EXTENDS Integers, Sequences, FiniteSets, TLC

\* ---------------------------------------------------------------- bounds
MaxReqs == 3          \* requests accepted in one run
MaxFailures == 1      \* store calls that raise in one run

Workers == {1, 2}
Users == {"u1", "u2"}
Products == {"p1", "p2"}
Qtys == {-1, 1}
OrderBodies == {[items |-> <<>>, total |-> 0],
                [items |-> <<[product_id |-> "p1", qty |-> 2, price |-> 10]>>,
                 total |-> 20]}
Address == [city |-> "c1"]

\* ---------------------------------------------------------------- state
VARIABLES
    cart,      \* db["cart"]: the documents in natural (insertion) order
    order,     \* db["order"]
    req,       \* per worker: the request it runs, its locals and position
    hist,      \* serial runs: the last two requests, with the store before and after
    passed,    \* the items and total handed to each create_document of an order
    accepted,  \* requests accepted so far
    onlyAdds,  \* per user, while the user's requests are add_to_cart of qty 1
               \* only and none has raised: how many were answered, per product
    failures,  \* store calls that have raised so far
    overlap    \* whether a request may be accepted while another is running

vars == <<cart, order, req, hist, passed, accepted, onlyAdds, failures, overlap>>

None == [none |-> TRUE]
NoneStr == "None"

\* str(ObjectId)
Str(id) == ToString(id)

\* a fresh ObjectId of a collection that never deletes
NewId(coll) == Len(coll) + 1

Matches(doc, filter) == \A k \in DOMAIN filter : k \in DOMAIN doc /\ doc[k] = filter[k]

MatchIdx(coll, filter) == {i \in 1..Len(coll) : Matches(coll[i], filter)}

FirstIdx(S) == CHOOSE i \in S : \A j \in S : i <= j

\* collection.find_one(filter)
FindOne(coll, filter) ==
    IF MatchIdx(coll, filter) = {} THEN None
    ELSE coll[FirstIdx(MatchIdx(coll, filter))]

\* the dict handed to insert_one, after the call (the driver adds _id to it)
Inserted(coll, doc) ==
    IF "_id" \in DOMAIN doc THEN doc ELSE doc @@ [_id |-> NewId(coll)]

\* collection.insert_one(doc)
InsertOne(coll, doc) == Append(coll, Inserted(coll, doc))

SetFields(doc, fields) ==
    [k \in (DOMAIN doc) \union (DOMAIN fields) |->
        IF k \in DOMAIN fields THEN fields[k] ELSE doc[k]]

\* $set of an _id other than the matched document's is rejected by the store
ImmutableIdError(coll, filter, fields) ==
    /\ MatchIdx(coll, filter) # {}
    /\ "_id" \in DOMAIN fields
    /\ fields["_id"] # coll[FirstIdx(MatchIdx(coll, filter))]["_id"]

UpdateOneAnyDoc(coll, filter, fields) ==
    IF coll = <<>>
    THEN Append(coll, Inserted(coll, SetFields(filter, fields)))
    ELSE [coll EXCEPT ![1] = SetFields(@, fields)]

\* collection.update_one(filter, {"$set": fields}, upsert=True)
UpdateOne(coll, filter, fields) ==
    IF MatchIdx(coll, filter) = {}
    THEN Append(coll, Inserted(coll, SetFields(filter, fields)))
    ELSE [coll EXCEPT ![FirstIdx(MatchIdx(coll, filter))] = SetFields(@, fields)]

\* ------------------------------------------------------- request payloads
\* class CartItemPayload (qty: int = 1, any integer is accepted)
CartItemPayload(user_id, product_id, qty) ==
    [user_id |-> user_id, product_id |-> product_id, qty |-> qty]

\* class CreateOrderPayload (payment_method defaults to "cod")
CreateOrderPayload(user_id, items, total) ==
    [user_id |-> user_id, items |-> items, total |-> total,
     payment_method |-> "cod", address |-> Address]

\* schemas.Order built by create_order: status takes its default "new"
OrderSchema(body) ==
    [user_id |-> body.user_id, items |-> body.items, total |-> body.total,
     status |-> "new", payment_method |-> body.payment_method,
     address |-> body.address]

\* database.create_document(collection, model): one insert of the model's fields
CreateDocument(coll, model) == InsertOne(coll, model)

\* ------------------------------------------------------- handler locals
\* get_cart: the dict inserted when find_one found nothing
EmptyCart(user_id) == [user_id |-> user_id, items |-> <<>>]

\* get_cart: cart["id"] = str(cart.pop("_id")) if cart.get("_id") else None
GetCartResponse(c) ==
    [user_id |-> c.user_id, items |-> c.items,
     id |-> IF "_id" \in DOMAIN c THEN Str(c["_id"]) ELSE NoneStr]

ItemIdx(items, product_id) ==
    {i \in 1..Len(items) : items[i].product_id = product_id}

OverwriteItem(items, product_id, qty) ==
    IF ItemIdx(items, product_id) # {}
    THEN [items EXCEPT ![FirstIdx(ItemIdx(items, product_id))].qty = qty]
    ELSE Append(items, [product_id |-> product_id, qty |-> qty])

\* add_to_cart: the "upsert product" loop and the append after it
UpsertItem(items, product_id, qty) ==
    IF ItemIdx(items, product_id) # {}
    THEN [items EXCEPT ![FirstIdx(ItemIdx(items, product_id))].qty = @ + qty]
    ELSE Append(items, [product_id |-> product_id, qty |-> qty])

\* ------------------------------------------------------- bookkeeping
IdleReq == [pc |-> "idle", body |-> None, c |-> None, oid |-> NoneStr]

AllIdle == \A w \in Workers : req[w].pc = "idle"

Mixed == [mixed |-> TRUE]

LastTwo(s) == IF Len(s) <= 2 THEN s ELSE SubSeq(s, Len(s) - 1, Len(s))

\* the request log is kept for serial runs, where "before" and "after" a
\* request are states of the store
Logged(entry) == IF overlap THEN hist ELSE LastTwo(Append(hist, entry))

\* the first idle worker takes a request off the wire; without overlap only
\* when no other request is running
Accept(w, op, body, pc) ==
    /\ req[w].pc = "idle"
    /\ \A v \in Workers : req[v].pc = "idle" => w <= v
    /\ overlap \/ AllIdle
    /\ accepted < MaxReqs
    /\ accepted' = accepted + 1
    /\ onlyAdds' = IF op = "add_to_cart" /\ body.qty = 1
                   THEN onlyAdds
                   ELSE [onlyAdds EXCEPT ![body.user_id] = Mixed]
    /\ req' = [req EXCEPT ![w] = [pc |-> pc, body |-> body,
                                  c |-> None, oid |-> NoneStr]]
    /\ hist' = Logged([op |-> op, body |-> body, state |-> "running",
                       at |-> pc, response |-> None,
                       cart0 |-> cart, order0 |-> order,
                       cart1 |-> cart, order1 |-> order])
    /\ UNCHANGED <<cart, order, passed, failures, overlap>>

\* the request of worker w ends: its response (or error) goes to the caller
Finish(w, state, response) ==
    /\ req' = [req EXCEPT ![w] = IdleReq]
    /\ hist' = IF overlap THEN hist
                ELSE [hist EXCEPT ![Len(hist)] =
                       [@ EXCEPT !.state = state, !.at = req[w].pc,
                                 !.response = response,
                                 !.cart1 = cart', !.order1 = order']]
    /\ UNCHANGED <<accepted, overlap>>

\* ------------------------------------------------------- GET /api/cart
get_cart_request(w, user_id) ==
    /\ user_id \in Users
    /\ Accept(w, "get_cart", [user_id |-> user_id], "get_find_one")

\* get_cart taking every lookup for a miss
get_cart_always_insert(w) ==
    /\ req[w].pc = "get_find_one"
    /\ UNCHANGED <<cart, order, passed, onlyAdds, failures, hist, accepted, overlap>>
    /\ req' = [req EXCEPT ![w].pc = "get_insert_one",
                          ![w].c = EmptyCart(req[w].body.user_id)]

get_cart_find_one(w) ==
    /\ req[w].pc = "get_find_one"
    /\ UNCHANGED <<cart, order, passed, onlyAdds, failures>>
    /\ LET found == FindOne(cart, [user_id |-> req[w].body.user_id])
       IN IF found # None
          THEN Finish(w, "ok", GetCartResponse(found))
          ELSE /\ req' = [req EXCEPT ![w].pc = "get_insert_one",
                                     ![w].c = EmptyCart(req[w].body.user_id)]
               /\ UNCHANGED <<hist, accepted, overlap>>

get_cart_insert_one(w) ==
    /\ req[w].pc = "get_insert_one"
    /\ cart' = InsertOne(cart, req[w].c)
    /\ UNCHANGED <<order, passed, onlyAdds, failures>>
    /\ Finish(w, "ok", GetCartResponse(Inserted(cart, req[w].c)))

\* ------------------------------------------------------- POST /api/cart
add_to_cart_request(w, user_id, product_id, qty) ==
    /\ user_id \in Users
    /\ Accept(w, "add_to_cart", CartItemPayload(user_id, product_id, qty),
              "add_find_one")

add_to_cart_find_one(w) ==
    /\ req[w].pc = "add_find_one"
    /\ UNCHANGED <<cart, order, passed, onlyAdds, failures, hist, accepted, overlap>>
    /\ LET body == req[w].body
           found == FindOne(cart, [user_id |-> body.user_id])
           c == IF found # None THEN found ELSE EmptyCart(body.user_id)
       IN req' = [req EXCEPT
                    ![w].pc = "add_update_one",
                    ![w].c = [c EXCEPT !.items =
                                UpsertItem(@, body.product_id, body.qty)]]

add_to_cart_update_one(w) ==
    /\ req[w].pc = "add_update_one"
    /\ UNCHANGED <<order, passed, failures>>
    /\ LET body == req[w].body
           filter == [user_id |-> body.user_id]
       IN IF ImmutableIdError(cart, filter, req[w].c)
          THEN /\ UNCHANGED cart
               /\ onlyAdds' = [onlyAdds EXCEPT ![body.user_id] = Mixed]
               /\ Finish(w, "error", None)
          ELSE /\ cart' = UpdateOne(cart, filter, req[w].c)
               /\ onlyAdds' =
                    IF onlyAdds[body.user_id] # Mixed
                    THEN [onlyAdds EXCEPT ![body.user_id][body.product_id] = @ + 1]
                    ELSE onlyAdds
               /\ Finish(w, "ok", [ok |-> TRUE])

\* ------------------------------------------------------- POST /api/orders
create_order_request(w, user_id, items, total) ==
    /\ user_id \in Users
    /\ Accept(w, "create_order", CreateOrderPayload(user_id, items, total),
              "order_create_document")

create_order_create_document(w) ==
    /\ req[w].pc = "order_create_document"
    /\ order' = CreateDocument(order, OrderSchema(req[w].body))
    /\ req' = [req EXCEPT ![w].pc = "order_update_one",
                          ![w].oid = Str(NewId(order))]
    /\ passed' = Append(passed, [order_id |-> Str(NewId(order)),
                                 items |-> req[w].body.items,
                                 total |-> req[w].body.total])
    /\ UNCHANGED <<cart, hist, accepted, onlyAdds, failures, overlap>>

\* create_order answering without the update of the cart
create_order_keep_cart(w) ==
    /\ req[w].pc = "order_update_one"
    /\ UNCHANGED <<cart, order, passed, onlyAdds, failures>>
    /\ Finish(w, "ok", [order_id |-> req[w].oid, status |-> "new"])

\* create_order emptying the items of db["order"] instead of db["cart"]
create_order_clear_order(w) ==
    /\ req[w].pc = "order_update_one"
    /\ order' = UpdateOne(order, [user_id |-> req[w].body.user_id],
                          [items |-> <<>>])
    /\ UNCHANGED <<cart, passed, onlyAdds, failures>>
    /\ Finish(w, "ok", [order_id |-> req[w].oid, status |-> "new"])

create_order_update_one(w) ==
    /\ req[w].pc = "order_update_one"
    /\ cart' = UpdateOne(cart, [user_id |-> req[w].body.user_id],
                         [items |-> <<>>])
    /\ UNCHANGED <<order, passed, onlyAdds, failures>>
    /\ Finish(w, "ok", [order_id |-> req[w].oid, status |-> "new"])

\* ------------------------------------------------------- store failures
\* a handler that empties the cart on its way out of a failed order write
StoreErrorClearsCart(w) ==
    /\ req[w].pc # "idle"
    /\ failures < MaxFailures
    /\ failures' = failures + 1
    /\ onlyAdds' = [onlyAdds EXCEPT ![req[w].body.user_id] = Mixed]
    /\ cart' = IF req[w].pc = "order_create_document"
               THEN UpdateOne(cart, [user_id |-> req[w].body.user_id],
                              [items |-> <<>>])
               ELSE cart
    /\ UNCHANGED <<order, passed>>
    /\ Finish(w, "error", None)

\* a handler that takes the order back when the update of the cart raises
StoreErrorRollsBack(w) ==
    /\ req[w].pc # "idle"
    /\ failures < MaxFailures
    /\ failures' = failures + 1
    /\ onlyAdds' = [onlyAdds EXCEPT ![req[w].body.user_id] = Mixed]
    /\ order' = IF req[w].pc = "order_update_one"
                THEN SubSeq(order, 1, Len(order) - 1)
                ELSE order
    /\ UNCHANGED <<cart, passed>>
    /\ Finish(w, "error", None)

\* the store call a worker is about to make raises: nothing is written and
\* the exception leaves the handler, which catches nothing
StoreError(w) ==
    /\ req[w].pc # "idle"
    /\ failures < MaxFailures
    /\ failures' = failures + 1
    /\ onlyAdds' = [onlyAdds EXCEPT ![req[w].body.user_id] = Mixed]
    /\ UNCHANGED <<cart, order, passed>>
    /\ Finish(w, "error", None)

\* ------------------------------------------------------- specifications
InitStore ==
    /\ cart = <<>>
    /\ order = <<>>
    /\ req = [w \in Workers |-> IdleReq]
    /\ hist = <<>>
    /\ passed = <<>>
    /\ accepted = 0
    /\ onlyAdds = [u \in Users |-> [p \in Products |-> 0]]
    /\ failures = 0

Next ==
    \E w \in Workers :
        \/ \E u \in Users : get_cart_request(w, u)
        \/ \E u \in Users, p \in Products, q \in Qtys :
               add_to_cart_request(w, u, p, q)
        \/ \E u \in Users, b \in OrderBodies :
               create_order_request(w, u, b.items, b.total)
        \/ get_cart_find_one(w)
        \/ get_cart_insert_one(w)
        \/ add_to_cart_find_one(w)
        \/ add_to_cart_update_one(w)
        \/ create_order_create_document(w)
        \/ create_order_update_one(w)
        \/ StoreError(w)

\* requests overlap: the workers' store calls interleave
Init == InitStore /\ overlap = TRUE

Spec == Init /\ [][Next]_vars

\* one request at a time, each run to completion before the next is accepted
InitSeq == InitStore /\ overlap = FALSE

SpecSeq == InitSeq /\ [][Next]_vars

\* ------------------------------------------------------- properties
\* what get_cart would find for the user
ItemsOf(coll, u) ==
    IF FindOne(coll, [user_id |-> u]) = None THEN <<>>
    ELSE FindOne(coll, [user_id |-> u]).items

\* the user's cart documents, in store order
DocsOf(coll, u) == SelectSeq(coll, LAMBDA d : d.user_id = u)

ProductIds(items) == {items[i].product_id : i \in 1..Len(items)}

Running(u) == \E w \in Workers : req[w].pc # "idle" /\ req[w].body.user_id = u

\* two requests run one after the other, both answered
Consecutive(op1, op2) ==
    /\ Len(hist) = 2
    /\ hist[1].op = op1 /\ hist[1].state = "ok"
    /\ hist[2].op = op2 /\ hist[2].state = "ok"
    /\ hist[1].body.user_id = hist[2].body.user_id

\* C1: for a user whose only requests are two overlapping add_to_cart of the
\* same product with qty 1, both answered, the cart holds the product with
\* qty 2 (no update is lost)
ConcurrentAddSafety ==
    \A u \in Users, p \in Products :
        ( /\ onlyAdds[u] # Mixed
          /\ onlyAdds[u][p] = 2
          /\ \A p2 \in Products \ {p} : onlyAdds[u][p2] = 0
          /\ ~Running(u) )
        => \E i \in 1..Len(ItemsOf(cart, u)) :
              /\ ItemsOf(cart, u)[i].product_id = p
              /\ ItemsOf(cart, u)[i].qty = 2

TwoAddsOf(p) ==
    /\ Consecutive("add_to_cart", "add_to_cart")
    /\ hist[1].body.product_id = p
    /\ hist[2].body.product_id = p
    /\ p \notin ProductIds(ItemsOf(hist[1].cart0, hist[1].body.user_id))

\* C2: add_to_cart of a product not in the cart, then add_to_cart of the same
\* product, leaves one line item of it with qty q1 + q2, and as many distinct
\* line items after the second call as after the first
MergeByIdentity ==
    \A p \in Products :
        TwoAddsOf(p) =>
            LET u == hist[1].body.user_id
                after1 == ItemsOf(hist[1].cart1, u)
                after2 == ItemsOf(hist[2].cart1, u)
            IN /\ Cardinality(ItemIdx(after2, p)) = 1
               /\ \A i \in ItemIdx(after2, p) :
                      after2[i].qty = hist[1].body.qty + hist[2].body.qty
               /\ Cardinality(ProductIds(after2)) = Cardinality(ProductIds(after1))
               /\ Len(after2) = Len(after1)

\* the two adds land on a cart that already holds another product
MergeByIdentityWitness ==
    \E p \in Products :
        /\ TwoAddsOf(p)
        /\ hist[1].body.qty = 1 /\ hist[2].body.qty = 1
        /\ Len(ItemsOf(cart, hist[1].body.user_id)) = 2

OrderThenGet ==
    /\ Consecutive("create_order", "get_cart")
    /\ ItemsOf(hist[1].cart0, hist[1].body.user_id) # <<>>

\* C3: once create_order has returned for a user whose cart was non-empty,
\* the next get_cart of that user returns items = []
CartClearsOnOrder ==
    OrderThenGet => hist[2].response.items = <<>>

\* the order's items are not the cart's contents
CartClearsOnOrderWitness ==
    /\ OrderThenGet
    /\ hist[1].body.items = <<>>
    /\ hist[2].response.id = "1"

\* C4: the cart collection holds at most one document per user id
OneCartPerUser ==
    \A u \in Users : Cardinality(MatchIdx(cart, [user_id |-> u])) <= 1

TwoGets ==
    /\ Consecutive("get_cart", "get_cart")
    /\ MatchIdx(hist[1].cart0, [user_id |-> hist[1].body.user_id]) = {}

\* C5: for a user without a cart, two get_cart calls in a row return the same
\* non-null cart id, and exactly one cart document of the user exists after
GetOrCreateDeterminism ==
    TwoGets =>
        /\ hist[1].response.id # NoneStr
        /\ hist[2].response.id = hist[1].response.id
        /\ Cardinality(MatchIdx(hist[2].cart1,
                                [user_id |-> hist[1].body.user_id])) = 1

\* the second user's cart is created while the first user's exists
GetOrCreateDeterminismWitness ==
    /\ TwoGets
    /\ Len(cart) = 2
    /\ hist[2].response.id = "2"

\* C6: every order persisted by create_order is still in the collection, once,
\* with the items and total passed at its creation and status "new", and the
\* collection holds nothing else
OrderImmutability ==
    /\ Len(order) = Len(passed)
    /\ \A i \in 1..Len(passed) :
          /\ Str(order[i]["_id"]) = passed[i].order_id
          /\ order[i].items = passed[i].items
          /\ order[i].total = passed[i].total
          /\ order[i].status = "new"
    /\ \A i, j \in 1..Len(order) : order[i]["_id"] = order[j]["_id"] => i = j

\* an order with items outlives a later order and cart clear of the same user
OrderImmutabilityWitness ==
    /\ Len(order) = 2
    /\ order[1].user_id = order[2].user_id
    /\ order[1].items # <<>>
    /\ order[2].items = <<>>
    /\ AllIdle
    /\ accepted = MaxReqs

OrderWriteFailed ==
    /\ hist # <<>>
    /\ hist[Len(hist)].op = "create_order"
    /\ hist[Len(hist)].state = "error"
    /\ hist[Len(hist)].at = "order_create_document"

\* C7: when the store write of the order raises inside create_order, the
\* request ends in the error, no order document is added and the carts are as
\* they were
FailedOrderHasNoEffect ==
    OrderWriteFailed =>
        /\ hist[Len(hist)].response = None
        /\ hist[Len(hist)].order1 = hist[Len(hist)].order0
        /\ hist[Len(hist)].cart1 = hist[Len(hist)].cart0
        /\ AllIdle => (order = hist[Len(hist)].order0 /\ cart = hist[Len(hist)].cart0)

FailedOrderHasNoEffectWitness ==
    /\ OrderWriteFailed
    /\ ItemsOf(cart, hist[Len(hist)].body.user_id) # <<>>

ClearFailed ==
    /\ hist # <<>>
    /\ hist[Len(hist)].op = "create_order"
    /\ hist[Len(hist)].state = "error"
    /\ hist[Len(hist)].at = "order_update_one"

\* C8: when the order write succeeds and the cart update raises, the new order
\* is persisted, the carts are as before the call, and the request has ended:
\* the order is not rolled back and the update is not retried
PartialFailureWindow ==
    ClearFailed =>
        LET h == hist[Len(hist)]
        IN /\ Len(h.order1) = Len(h.order0) + 1
           /\ SubSeq(h.order1, 1, Len(h.order0)) = h.order0
           /\ h.order1[Len(h.order1)].user_id = h.body.user_id
           /\ h.order1[Len(h.order1)].items = h.body.items
           /\ h.order1[Len(h.order1)].total = h.body.total
           /\ h.cart1 = h.cart0
           /\ AllIdle => (order = h.order1 /\ cart = h.cart0)

PartialFailureWindowWitness ==
    /\ ClearFailed
    /\ AllIdle
    /\ ItemsOf(cart, hist[Len(hist)].body.user_id) # <<>>
    /\ order # <<>>

\* C9: no two items of a cart share a product_id and every qty is >= 1
CartWellFormed ==
    \A d \in 1..Len(cart) :
        /\ \A i, j \in 1..Len(cart[d].items) :
              cart[d].items[i].product_id = cart[d].items[j].product_id => i = j
        /\ \A i \in 1..Len(cart[d].items) : cart[d].items[i].qty >= 1

\* C10: a step changes the cart documents of a user (their existence, items
\* and order) only if it is a step of a request made for that user
PerUserIndependence ==
    [][\A b \in Users :
          DocsOf(cart', b) # DocsOf(cart, b) =>
              \E w \in Workers : /\ req[w].pc # "idle"
                                 /\ req[w].body.user_id = b
                                 /\ req'[w] # req[w]]_vars

\* u1's cart, stored after u2's filled one, has been emptied by u1's order
PerUserIndependenceWitness ==
    /\ Len(cart) = 2
    /\ cart[1].user_id = "u2" /\ cart[1].items # <<>>
    /\ cart[2].user_id = "u1" /\ cart[2].items = <<>>
    /\ \E i \in 1..Len(order) : order[i].user_id = "u1"

====
